---- MODULE Spec2Model ----
(***************************************************************************)
(* ToolExecutor (src/upflame_ago/agent/executor.py): capability dispatch,  *)
(* the ALLOW_UNSAFE_EXECUTION gate, the code-evaluation handler with its   *)
(* redirection of sys.stdout, the external-command handler with its        *)
(* 10 second timeout, and the mock search handler.                         *)
(*                                                                         *)
(* Host threads call ToolExecutor.execute; each thread is one position in  *)
(* the code (pc) plus the locals of the frames it is in.  Shared state is  *)
(* the process environment, sys.stdout and the StringIO buffers reachable  *)
(* through it.                                                             *)
(*                                                                         *)
(* Strings are TLA+ strings, except the two that the code transforms       *)
(* character by character (the flag value, lower()ed, and the command,     *)
(* shlex.split), which are sequences of one-character strings.             *)
(* The text given to exec() is a sequence of statements:                   *)
(*    "print"      print('a')                                              *)
(*    "raise"      raise ValueError('boom')                                *)
(*    "exit"       raise SystemExit('bye')                                 *)
(***************************************************************************)
EXTENDS Integers, Sequences, FiniteSets, TLC

\* ------------------------------------------------------------------ bounds
MaxCodeLen == 2

\* -------------------------------------------------------- program constants
ShellTimeout == 10

\* two host threads: the smallest number that lets code evaluations overlap
Threads == {1, 2}

\* ------------------------------------------------------------------ strings
Chars(w) ==
  CASE w = "true"     -> <<"t","r","u","e">>
    [] w = "TrUE"     -> <<"T","r","U","E">>
    [] w = "false"    -> <<"f","a","l","s","e">>
    [] w = "1"        -> <<"1">>
    [] w = "echo ok"  -> <<"e","c","h","o"," ","o","k">>
    [] w = "sleep 3"  -> <<"s","l","e","e","p"," ","3">>
    [] w = "sleep 30" -> <<"s","l","e","e","p"," ","3","0">>
    [] w = "echo 'x"  -> <<"e","c","h","o"," ","'","x">>
    [] w = "nosuch"   -> <<"n","o","s","u","c","h">>
    [] w = ""         -> <<>>

UpperCase == <<"A","B","C","D","E","F","G","H","I","J","K","L","M",
               "N","O","P","Q","R","S","T","U","V","W","X","Y","Z">>
LowerCase == <<"a","b","c","d","e","f","g","h","i","j","k","l","m",
               "n","o","p","q","r","s","t","u","v","w","x","y","z">>

lowerChar(c) ==
  IF \E i \in 1..26 : UpperCase[i] = c
  THEN LowerCase[CHOOSE i \in 1..26 : UpperCase[i] = c]
  ELSE c

\* str.lower()
lower(s) == [i \in 1..Len(s) |-> lowerChar(s[i])]

\* ------------------------------------------------------------- environment
Unset == [present |-> FALSE, value |-> <<>>]
SetTo(v) == [present |-> TRUE, value |-> v]

FlagValues == {Unset, SetTo(Chars("true")), SetTo(Chars("TrUE")),
               SetTo(Chars("false")), SetTo(Chars("1"))}

\* os.getenv(name, default)
getenv(e, default) == IF e.present THEN e.value ELSE default

GateEnabledTruthy(e) == e.present /\ e.value # <<>>

GateEnabledCaseSensitive(e) == getenv(e, Chars("false")) = Chars("true")

\* not (os.getenv("ALLOW_UNSAFE_EXECUTION", "false").lower() != "true")
GateEnabled(e) == lower(getenv(e, Chars("false"))) = Chars("true")

\* ------------------------------------------------------------------ faults
NoFault == [cls |-> "none", msg |-> ""]
Fault(c, m) == [cls |-> c, msg |-> m]

\* the classes that derive from Exception; SystemExit derives from
\* BaseException only
ExceptionClasses == {"ValueError", "AttributeError", "IndexError",
                     "FileNotFoundError", "TimeoutExpired", "PermissionError"}

\* what `except Exception as e` catches
CaughtByExceptException(f) == f.cls \in ExceptionClasses

\* str(e)
str(f) == f.msg

NoneHasNoGet == Fault("AttributeError", "'NoneType' object has no attribute 'get'")

\* ------------------------------------------------------------- parameters
NoneParams == [isNone |-> TRUE, key |-> "", code |-> <<>>, text |-> <<>>]
EmptyDict == [isNone |-> FALSE, key |-> "", code |-> <<>>, text |-> <<>>]
CodeDict(c) == [isNone |-> FALSE, key |-> "code", code |-> c, text |-> <<>>]
TextDict(k, t) == [isNone |-> FALSE, key |-> k, code |-> <<>>, text |-> t]

Statements == {"print", "raise", "exit"}
\* programs of at most MaxCodeLen statements that end at their first raise
Codes == {c \in UNION {[1..n -> Statements] : n \in 0..MaxCodeLen} :
            \A i \in 1..Len(c) : i < Len(c) => c[i] = "print"}

Commands == {Chars("echo ok"), Chars("sleep 3"), Chars("sleep 30"),
             Chars("echo 'x"), Chars("nosuch")}
Queries == {Chars("true")}

\* the payloads worth sending to a capability (the others behave as EmptyDict)
ParamsFor(n) ==
  CASE n = "python" -> {NoneParams, EmptyDict} \cup {CodeDict(c) : c \in Codes}
    [] n = "shell"  -> {NoneParams, EmptyDict} \cup {TextDict("command", c) : c \in Commands}
    [] n = "search" -> {NoneParams, EmptyDict} \cup {TextDict("query", q) : q \in Queries}
    [] OTHER        -> {NoneParams, EmptyDict}

ToolNames == {"python", "shell", "search", "Python", ""}

\* params.get("code", "")
getCode(prm) == IF prm.key = "code" THEN prm.code ELSE <<>>
\* params.get(k, "") for the text-valued keys "command" and "query"
getText(prm, k) == IF prm.key = k THEN prm.text ELSE <<>>

RECURSIVE Join(_)
\* the characters of s as one string
Join(s) == IF s = <<>> THEN "" ELSE Head(s) \o Join(Tail(s))


RECURSIVE ReprItems(_)
ReprItems(a) ==
  IF a = <<>> THEN ""
  ELSE "'" \o Head(a) \o "'" \o (IF Tail(a) = <<>> THEN "" ELSE ", " \o ReprItems(Tail(a)))
\* repr() of a list of strings
ReprList(a) == "[" \o ReprItems(a) \o "]"

\* ------------------------------------------------------------------- shlex
RECURSIVE ShlexScan(_, _, _, _, _, _)
\* shlex.split over blanks and single quotes: tok is the token being read,
\* has says a token is open, quoted says the scan is inside '...'
ShlexScan(s, i, tok, has, quoted, acc) ==
  IF i > Len(s)
  THEN IF quoted
       THEN [ok |-> FALSE, args |-> <<>>]
       ELSE [ok |-> TRUE, args |-> IF has THEN Append(acc, tok) ELSE acc]
  ELSE LET c == s[i] IN
       IF quoted
       THEN IF c = "'" THEN ShlexScan(s, i + 1, tok, TRUE, FALSE, acc)
                       ELSE ShlexScan(s, i + 1, tok \o c, TRUE, TRUE, acc)
       ELSE IF c = "'" THEN ShlexScan(s, i + 1, tok, TRUE, TRUE, acc)
       ELSE IF c = " " THEN ShlexScan(s, i + 1, "", FALSE, FALSE,
                                      IF has THEN Append(acc, tok) ELSE acc)
       ELSE ShlexScan(s, i + 1, tok \o c, TRUE, FALSE, acc)

shlex_split(s) == ShlexScan(s, 1, "", FALSE, FALSE, <<>>)

NoClosingQuotation == Fault("ValueError", "No closing quotation")

\* ------------------------------------------------- programs found on PATH
Programs == {"echo", "sleep"}

\* seconds the child runs before it exits by itself
Duration(a) ==
  IF a[1] = "sleep"
  THEN (IF Len(a) >= 2 /\ a[2] = "3" THEN 3 ELSE 30)
  ELSE 0

RECURSIVE Words(_)
Words(a) == IF a = <<>> THEN ""
            ELSE Head(a) \o (IF Tail(a) = <<>> THEN "" ELSE " " \o Words(Tail(a)))

\* result.stdout + result.stderr of a child that exited by itself
ChildOutput(a) == IF a[1] = "echo" THEN Words(Tail(a)) \o "\n" ELSE ""

\* the fault Popen raises for an argument vector it cannot start
PopenFault(a) ==
  IF a = <<>> THEN Fault("IndexError", "list index out of range")
  ELSE IF a[1] \notin Programs
       THEN Fault("FileNotFoundError",
                  "[Errno 2] No such file or directory: '" \o a[1] \o "'")
       ELSE NoFault

TimeoutExpired(a) ==
  Fault("TimeoutExpired",
        "Command '" \o ReprList(a) \o "' timed out after "
          \o ToString(ShellTimeout) \o " seconds")

\* ---------------------------------------------------------------- streams
Stdout == [kind |-> "__stdout__", owner |-> 0]
HostStream == [kind |-> "host", owner |-> 0]
Buf(p) == [kind |-> "StringIO", owner |-> p]

StreamWriteLost(bufs, stream, text) == bufs

\* sys.stdout.write(text) as print() performs it: the stream is looked up
\* at the time of the call
StreamWrite(bufs, stream, text) ==
  IF stream.kind = "StringIO"
  THEN [bufs EXCEPT ![stream.owner] = @ \o text]
  ELSE bufs

\* --------------------------------------------------------------- envelopes
NoEnvelope == [status |-> "none"]

SuccessEnvelopeBoth(r) == [status |-> "success", result |-> r, message |-> ""]

\* {"status": "success", "result": result}
SuccessEnvelope(r) == [status |-> "success", result |-> r]

\* {"status": "error", "message": str(e)}
ErrorEnvelope(m) == [status |-> "error", message |-> m]

NotFoundEnvelopeNoName(n) == [status |-> "error", message |-> "Tool not found"]

\* {"status": "error", "message": f"Tool {tool_name} not found"}
NotFoundEnvelope(n) == [status |-> "error", message |-> "Tool " \o n \o " not found"]

\* how a handler (or a statement) ends
Returned(v) == [kind |-> "return", value |-> v, exc |-> NoFault]
Raised(f) == [kind |-> "raise", value |-> "", exc |-> f]

\* what the caller of execute gets
NothingYet == [kind |-> "none", envelope |-> NoEnvelope, exc |-> NoFault]
Gave(e) == [kind |-> "returned", envelope |-> e, exc |-> NoFault]
Propagated(f) == [kind |-> "raised", envelope |-> NoEnvelope, exc |-> f]

\* the try/except of execute around the handler call
execute_try(o) ==
  IF o.kind = "return" THEN Gave(SuccessEnvelope(o.value))
  ELSE IF CaughtByExceptException(o.exc) THEN Gave(ErrorEnvelope(str(o.exc)))
  ELSE Propagated(o.exc)

\* try: ... except Exception as e: return str(e), inside a handler
handler_try(f) == IF CaughtByExceptException(f) THEN Returned(str(f)) ELSE Raised(f)

PythonDisabledRaises ==
  Raised(Fault("PermissionError", "Error: Python execution is disabled. Set ALLOW_UNSAFE_EXECUTION=true to enable."))

PythonDisabled ==
  Returned("Error: Python execution is disabled. Set ALLOW_UNSAFE_EXECUTION=true to enable.")

ShellDisabled ==
  Returned("Error: Shell execution is disabled. Set ALLOW_UNSAFE_EXECUTION=true to enable.")

\* ToolExecutor.__init__
ToolExecutorInit ==
  [n \in {"python", "shell", "search"} |->
     CASE n = "python" -> "execute_python"
       [] n = "shell"  -> "execute_shell"
       [] n = "search" -> "execute_search"]

\* -------------------------------------------------------------------- state
VARIABLES
  tools,        \* self.tools
  environ,      \* ALLOW_UNSAFE_EXECUTION in os.environ
  sys_stdout,   \* sys.stdout
  buffer,       \* buffer[p]: contents of the StringIO made by thread p
  pc,           \* where thread p is
  tool_name,    \* arguments of execute
  params,
  code,         \* locals of execute_python
  ip,           \* next statement of the code under exec
  output,
  pending,      \* fault in flight through the finally clause
  args,         \* locals of execute_shell
  child,        \* the child process of the thread's subprocess.run
  elapsed,      \* seconds since the child started
  ret,          \* what execute gave its caller
  \* history of the current invocation
  handler,      \* the handler execute called, "none" before
  flagRead,     \* the flag as the gate check read it
  gate,         \* "unchecked", "enabled", "disabled"
  effects,      \* side-effecting steps taken
  stdoutBefore, \* sys.stdout when the invocation replaced it
  overlapped,   \* another code evaluation was in flight together with this one
  written,      \* text the evaluated code has printed
  codeFault     \* fault raised by the evaluated code

vars == <<tools, environ, sys_stdout, buffer, pc, tool_name, params, code, ip,
          output, pending, args, child, elapsed, ret, handler, flagRead, gate,
          effects, stdoutBefore, overlapped, written, codeFault>>

locals == <<code, ip, output, pending, args>>
hist == <<handler, flagRead, gate, effects, stdoutBefore, overlapped, written, codeFault>>

Init ==
  /\ tools = ToolExecutorInit
  /\ environ \in FlagValues
  /\ sys_stdout = Stdout
  /\ buffer = [p \in Threads |-> ""]
  /\ pc = [p \in Threads |-> "idle"]
  /\ tool_name = [p \in Threads |-> ""]
  /\ params = [p \in Threads |-> EmptyDict]
  /\ code = [p \in Threads |-> <<>>]
  /\ ip = [p \in Threads |-> 1]
  /\ output = [p \in Threads |-> ""]
  /\ pending = [p \in Threads |-> NoFault]
  /\ args = [p \in Threads |-> <<>>]
  /\ child = [p \in Threads |-> "none"]
  /\ elapsed = [p \in Threads |-> 0]
  /\ ret = [p \in Threads |-> NothingYet]
  /\ handler = [p \in Threads |-> "none"]
  /\ flagRead = [p \in Threads |-> Unset]
  /\ gate = [p \in Threads |-> "unchecked"]
  /\ effects = [p \in Threads |-> {}]
  /\ stdoutBefore = [p \in Threads |-> Stdout]
  /\ overlapped = [p \in Threads |-> FALSE]
  /\ written = [p \in Threads |-> ""]
  /\ codeFault = [p \in Threads |-> NoFault]

\* execute hands o, the way its handler call ended, to its caller
Finish(p, o) ==
  /\ ret' = [ret EXCEPT ![p] = execute_try(o)]
  /\ pc' = [pc EXCEPT ![p] = "done"]

\* a thread is between its redirection of sys.stdout and its finally clause
InWindow(q) == pc[q] \in {"py_exec", "py_finally"}

\* --------------------------------------------------------------- dispatcher
\* execute(tool_name, params) up to the handler call
execute(p, n, prm) ==
  /\ pc[p] = "idle"
  /\ tool_name' = [tool_name EXCEPT ![p] = n]
  /\ params' = [params EXCEPT ![p] = prm]
  /\ IF n \notin DOMAIN tools
     THEN /\ ret' = [ret EXCEPT ![p] = Gave(NotFoundEnvelope(n))]
          /\ pc' = [pc EXCEPT ![p] = "done"]
          /\ UNCHANGED handler
     ELSE /\ pc' = [pc EXCEPT ![p] = tools[n]]
          /\ handler' = [handler EXCEPT ![p] = tools[n]]
          /\ UNCHANGED ret
  /\ UNCHANGED <<tools, environ, sys_stdout, buffer, child, elapsed, locals,
                 flagRead, gate, effects, stdoutBefore, overlapped, written,
                 codeFault>>

\* the caller takes the result; the frames of the call are gone
Return(p) ==
  /\ pc[p] = "done"
  /\ pc' = [pc EXCEPT ![p] = "idle"]
  /\ tool_name' = [tool_name EXCEPT ![p] = ""]
  /\ params' = [params EXCEPT ![p] = EmptyDict]
  /\ code' = [code EXCEPT ![p] = <<>>]
  /\ ip' = [ip EXCEPT ![p] = 1]
  /\ output' = [output EXCEPT ![p] = ""]
  /\ pending' = [pending EXCEPT ![p] = NoFault]
  /\ args' = [args EXCEPT ![p] = <<>>]
  /\ child' = [child EXCEPT ![p] = "none"]
  /\ elapsed' = [elapsed EXCEPT ![p] = 0]
  /\ ret' = [ret EXCEPT ![p] = NothingYet]
  /\ buffer' = [buffer EXCEPT ![p] = ""]
  /\ handler' = [handler EXCEPT ![p] = "none"]
  /\ flagRead' = [flagRead EXCEPT ![p] = Unset]
  /\ gate' = [gate EXCEPT ![p] = "unchecked"]
  /\ effects' = [effects EXCEPT ![p] = {}]
  /\ stdoutBefore' = [stdoutBefore EXCEPT ![p] = Stdout]
  /\ overlapped' = [overlapped EXCEPT ![p] = FALSE]
  /\ written' = [written EXCEPT ![p] = ""]
  /\ codeFault' = [codeFault EXCEPT ![p] = NoFault]
  /\ UNCHANGED <<tools, environ, sys_stdout>>

\* -------------------------------------------------- code-evaluation handler
\* execute_python: the gate check, then code = params.get("code", "") and
\* buffer = io.StringIO()
execute_python(p) ==
  /\ pc[p] = "execute_python"
  /\ flagRead' = [flagRead EXCEPT ![p] = environ]
  /\ IF ~GateEnabled(environ)
     THEN /\ gate' = [gate EXCEPT ![p] = "disabled"]
          /\ Finish(p, PythonDisabled)
          /\ UNCHANGED <<code, buffer>>
     ELSE /\ gate' = [gate EXCEPT ![p] = "enabled"]
          /\ IF params[p].isNone
             THEN /\ Finish(p, Raised(NoneHasNoGet))
                  /\ UNCHANGED <<code, buffer>>
             ELSE /\ code' = [code EXCEPT ![p] = getCode(params[p])]
                  /\ buffer' = [buffer EXCEPT ![p] = ""]
                  /\ pc' = [pc EXCEPT ![p] = "py_redirect"]
                  /\ UNCHANGED ret
  /\ UNCHANGED <<tools, environ, sys_stdout, tool_name, params, ip, output,
                 pending, args, child, elapsed, handler, effects, stdoutBefore,
                 overlapped, written, codeFault>>

\* sys.stdout = buffer
execute_python_redirect(p) ==
  /\ pc[p] = "py_redirect"
  /\ sys_stdout' = Buf(p)
  /\ stdoutBefore' = [stdoutBefore EXCEPT ![p] = sys_stdout]
  /\ effects' = [effects EXCEPT ![p] = @ \cup {"redirect"}]
  /\ overlapped' = [q \in Threads |->
                      IF \E r \in Threads \ {p} : InWindow(r)
                      THEN overlapped[q] \/ q = p \/ InWindow(q)
                      ELSE overlapped[q]]
  /\ ip' = [ip EXCEPT ![p] = 1]
  /\ pc' = [pc EXCEPT ![p] = "py_exec"]
  /\ UNCHANGED <<tools, environ, buffer, tool_name, params, code, output,
                 pending, args, child, elapsed, ret, handler, flagRead, gate,
                 written, codeFault>>

\* the fault a statement raises
StatementFault(st) ==
  CASE st = "raise" -> Fault("ValueError", "boom")
    [] st = "exit"  -> Fault("SystemExit", "bye")
    [] OTHER        -> NoFault

\* exec(code, {"__name__": "__main__"}), one statement at a time, then
\* output = buffer.getvalue(); a fault goes to except Exception (output =
\* str(e)) or, not caught there, on through the finally clause
execute_python_exec(p) ==
  /\ pc[p] = "py_exec"
  /\ effects' = [effects EXCEPT ![p] = @ \cup {"exec"}]
  /\ IF ip[p] > Len(code[p])
     THEN /\ output' = [output EXCEPT ![p] = buffer[p]]
          /\ pc' = [pc EXCEPT ![p] = "py_finally"]
          /\ UNCHANGED <<buffer, written, ip, pending, codeFault>>
     ELSE LET st == code[p][ip[p]] IN
          IF st = "print"
          THEN /\ buffer' = StreamWrite(buffer, sys_stdout, "a\n")
               /\ written' = [written EXCEPT ![p] = @ \o "a\n"]
               /\ ip' = [ip EXCEPT ![p] = @ + 1]
               /\ UNCHANGED <<output, pc, pending, codeFault>>
          ELSE /\ codeFault' = [codeFault EXCEPT ![p] = StatementFault(st)]
               /\ IF CaughtByExceptException(StatementFault(st))
                  THEN /\ output' = [output EXCEPT ![p] = str(StatementFault(st))]
                       /\ UNCHANGED pending
                  ELSE /\ pending' = [pending EXCEPT ![p] = StatementFault(st)]
                       /\ UNCHANGED output
               /\ pc' = [pc EXCEPT ![p] = "py_finally"]
               /\ UNCHANGED <<buffer, written, ip>>
  /\ UNCHANGED <<tools, environ, sys_stdout, tool_name, params, code, args,
                 child, elapsed, ret, handler, flagRead, gate, stdoutBefore,
                 overlapped>>

\* finally: sys.stdout = sys.__stdout__, then return output (or the fault
\* in flight leaves the handler)
execute_python_finally(p) ==
  /\ pc[p] = "py_finally"
  /\ sys_stdout' = Stdout
  /\ Finish(p, IF pending[p] # NoFault THEN Raised(pending[p]) ELSE Returned(output[p]))
  /\ UNCHANGED <<tools, environ, buffer, tool_name, params, locals, child,
                 elapsed, hist>>

\* ------------------------------------------------- external-command handler
\* execute_shell: the gate check, then command = params.get("command", "")
execute_shell(p) ==
  /\ pc[p] = "execute_shell"
  /\ flagRead' = [flagRead EXCEPT ![p] = environ]
  /\ IF ~GateEnabled(environ)
     THEN /\ gate' = [gate EXCEPT ![p] = "disabled"]
          /\ Finish(p, ShellDisabled)
     ELSE /\ gate' = [gate EXCEPT ![p] = "enabled"]
          /\ IF params[p].isNone
             THEN Finish(p, Raised(NoneHasNoGet))
             ELSE /\ pc' = [pc EXCEPT ![p] = "sh_run"]
                  /\ UNCHANGED ret
  /\ UNCHANGED <<tools, environ, sys_stdout, buffer, tool_name, params, locals,
                 child, elapsed, handler, effects, stdoutBefore, overlapped,
                 written, codeFault>>

\* args = shlex.split(command); subprocess.run(args, ...) up to the start of
\* the child
execute_shell_run(p) ==
  /\ pc[p] = "sh_run"
  /\ LET sp == shlex_split(getText(params[p], "command")) IN
     IF ~sp.ok
     THEN /\ Finish(p, handler_try(NoClosingQuotation))
          /\ UNCHANGED <<args, child, effects>>
     ELSE /\ args' = [args EXCEPT ![p] = sp.args]
          /\ effects' = [effects EXCEPT ![p] = @ \cup {"subprocess"}]
          /\ IF PopenFault(sp.args) # NoFault
             THEN /\ Finish(p, handler_try(PopenFault(sp.args)))
                  /\ UNCHANGED child
             ELSE /\ child' = [child EXCEPT ![p] = "running"]
                  /\ pc' = [pc EXCEPT ![p] = "sh_wait"]
                  /\ UNCHANGED ret
  /\ elapsed' = [elapsed EXCEPT ![p] = 0]
  /\ UNCHANGED <<tools, environ, sys_stdout, buffer, tool_name, params, code,
                 ip, output, pending, handler, flagRead, gate, stdoutBefore,
                 overlapped, written, codeFault>>

\* a second passes while subprocess.run waits for the child
execute_shell_tick(p) ==
  /\ pc[p] = "sh_wait"
  /\ child[p] = "running"
  /\ elapsed[p] < ShellTimeout
  /\ elapsed[p] < Duration(args[p])
  /\ elapsed' = [elapsed EXCEPT ![p] = @ + 1]
  /\ UNCHANGED <<tools, environ, sys_stdout, buffer, pc, tool_name, params,
                 locals, child, ret, hist>>

\* the child exits in time: return result.stdout + result.stderr
execute_shell_exit(p) ==
  /\ pc[p] = "sh_wait"
  /\ child[p] = "running"
  /\ elapsed[p] = Duration(args[p])
  /\ child' = [child EXCEPT ![p] = "exited"]
  /\ Finish(p, Returned(ChildOutput(args[p])))
  /\ UNCHANGED <<tools, environ, sys_stdout, buffer, tool_name, params, locals,
                 elapsed, hist>>

execute_shell_timeout_nokill(p) ==
  /\ pc[p] = "sh_wait"
  /\ child[p] = "running"
  /\ elapsed[p] = ShellTimeout
  /\ Finish(p, handler_try(TimeoutExpired(args[p])))
  /\ UNCHANGED <<tools, environ, sys_stdout, buffer, tool_name, params, locals,
                 child, elapsed, hist>>

\* timeout=10 expires: subprocess.run kills the child, waits for it and
\* raises TimeoutExpired, which except Exception turns into str(e)
execute_shell_timeout(p) ==
  /\ pc[p] = "sh_wait"
  /\ child[p] = "running"
  /\ elapsed[p] = ShellTimeout
  /\ child' = [child EXCEPT ![p] = "killed"]
  /\ Finish(p, handler_try(TimeoutExpired(args[p])))
  /\ UNCHANGED <<tools, environ, sys_stdout, buffer, tool_name, params, locals,
                 elapsed, hist>>

\* ---------------------------------------------------- remote-lookup handler
\* execute_search: f"Results for {query}: [Mock Data]"
execute_search(p) ==
  /\ pc[p] = "execute_search"
  /\ IF params[p].isNone
     THEN Finish(p, Raised(NoneHasNoGet))
     ELSE Finish(p, Returned("Results for " \o Join(getText(params[p], "query"))
                               \o ": [Mock Data]"))
  /\ UNCHANGED <<tools, environ, sys_stdout, buffer, tool_name, params, locals,
                 child, elapsed, hist>>

\* ------------------------------------------------------------ the host side
\* the host sets or unsets ALLOW_UNSAFE_EXECUTION
setenv(v) ==
  /\ v # environ
  /\ environ' = v
  /\ UNCHANGED <<tools, sys_stdout, buffer, pc, tool_name, params, locals,
                 child, elapsed, ret, hist>>

\* the host installs a stream of its own as sys.stdout, or the interpreter's
\* one back, while no code evaluation has it redirected
host_set_stdout(s) ==
  /\ \A q \in Threads : ~InWindow(q)
  /\ s # sys_stdout
  /\ sys_stdout' = s
  /\ UNCHANGED <<tools, environ, buffer, pc, tool_name, params, locals, child,
                 elapsed, ret, hist>>

\* dispatch is synchronous and blocking: the host has one call of execute
\* outstanding at a time
Serialized == \A q \in Threads : pc[q] = "idle"

Step(p) ==
  \/ /\ Serialized
     /\ \E n \in ToolNames : \E prm \in ParamsFor(n) : execute(p, n, prm)
  \/ execute_python(p)
  \/ execute_python_redirect(p)
  \/ execute_python_exec(p)
  \/ execute_python_finally(p)
  \/ execute_shell(p)
  \/ execute_shell_run(p)
  \/ execute_shell_tick(p)
  \/ execute_shell_exit(p)
  \/ execute_shell_timeout(p)
  \/ execute_search(p)
  \/ Return(p)

Next ==
  \/ \E p \in Threads : Step(p)
  \/ \E v \in FlagValues : setenv(v)
  \/ \E s \in {Stdout, HostStream} : host_set_stdout(s)

Spec == Init /\ [][Next]_vars

\* the threads make progress and time passes
FairSpec == Spec /\ \A p \in Threads : WF_vars(Step(p))

\* host threads that evaluate code without waiting for one another
ConcStep(p) ==
  \/ \E prm \in ParamsFor("python") : execute(p, "python", prm)
  \/ execute_python(p)
  \/ execute_python_redirect(p)
  \/ execute_python_exec(p)
  \/ execute_python_finally(p)
  \/ Return(p)

ConcNext ==
  \/ \E p \in Threads : ConcStep(p)

\* the host has exported ALLOW_UNSAFE_EXECUTION=true and leaves it alone
ConcInit == Init /\ environ = SetTo(Chars("true"))
ConcSpec == ConcInit /\ [][ConcNext]_vars

\* ================================================================== claims
\* the spellings of "true" that a case-insensitive comparison accepts
IsTrueLiteral(e) ==
  /\ e.present
  /\ Len(e.value) = 4
  /\ e.value[1] \in {"t", "T"}
  /\ e.value[2] \in {"r", "R"}
  /\ e.value[3] \in {"u", "U"}
  /\ e.value[4] \in {"e", "E"}

Gated(p) == tool_name[p] \in {"python", "shell"}

WellFormed(e) ==
  \/ DOMAIN e = {"status", "result"} /\ e.status = "success"
  \/ DOMAIN e = {"status", "message"} /\ e.status = "error"

\* C1: whatever the capability, the payload and the fault, a dispatch that
\* has ended has returned an envelope to its caller; no fault has propagated
\* out of execute.
C1_NoFaultEscapes ==
  \A p \in Threads : pc[p] = "done" => ret[p].kind = "returned"

\* C2: an invocation of a gated handler whose gate check read a flag that is
\* not "true" has redirected nothing, evaluated nothing and started no child
\* process, and no such step is ever taken before the gate check.
C2_GateBeforeEffects ==
  \A p \in Threads :
    /\ effects[p] # {} => gate[p] # "unchecked"
    /\ (gate[p] # "unchecked" /\ ~IsTrueLiteral(flagRead[p])) =>
         /\ effects[p] = {}
         /\ child[p] = "none"
         /\ sys_stdout # Buf(p)
         /\ pc[p] = "done"

C2_Witness ==
  \E p \in Threads :
    /\ pc[p] = "done" /\ tool_name[p] = "shell"
    /\ params[p] = TextDict("command", Chars("echo ok"))
    /\ flagRead[p] = SetTo(Chars("1"))
    /\ effects[p] = {}

\* C3: a capability name other than python, shell, search gets the error
\* envelope "Tool {name} not found", no handler is called, nothing is raised,
\* and the registry is the one built at construction.
C3_UnknownTool ==
  /\ DOMAIN tools = {"python", "shell", "search"}
  /\ \A p \in Threads :
       (pc[p] = "done" /\ tool_name[p] \notin {"python", "shell", "search"}) =>
         /\ ret[p].kind = "returned"
         /\ ret[p].envelope =
              [status |-> "error", message |-> "Tool " \o tool_name[p] \o " not found"]
         /\ handler[p] = "none"
         /\ effects[p] = {}

C3_Witness ==
  \E p \in Threads :
    /\ pc[p] = "done" /\ tool_name[p] = "Python"
    /\ ret[p].envelope = [status |-> "error", message |-> "Tool Python not found"]

\* C4: python or shell dispatched while the flag is not "true" returns the
\* success envelope carrying the handler's disabled message, and nothing was
\* evaluated or spawned.
C4_DisabledIsSuccess ==
  \A p \in Threads :
    (pc[p] = "done" /\ Gated(p) /\ ~IsTrueLiteral(flagRead[p])) =>
      /\ ret[p].kind = "returned"
      /\ ret[p].envelope =
           [status |-> "success",
            result |-> IF tool_name[p] = "python"
                       THEN "Error: Python execution is disabled. Set ALLOW_UNSAFE_EXECUTION=true to enable."
                       ELSE "Error: Shell execution is disabled. Set ALLOW_UNSAFE_EXECUTION=true to enable."]
      /\ effects[p] = {}
      /\ child[p] = "none"

C4_Witness ==
  \E p \in Threads :
    /\ pc[p] = "done" /\ tool_name[p] = "python"
    /\ params[p] = NoneParams
    /\ flagRead[p] = Unset
    /\ ret[p].envelope.status = "success"

\* C5: a gated handler goes on to its body exactly when the flag it read at
\* its start is a spelling of "true", whatever the flag was before or is now.
C5_GateNotCached ==
  \A p \in Threads :
    (Gated(p) /\ gate[p] # "unchecked") =>
      (gate[p] = "enabled" <=> IsTrueLiteral(flagRead[p]))

C5_Witness ==
  \E p \in Threads :
    /\ pc[p] = "done" /\ tool_name[p] = "python"
    /\ flagRead[p] = SetTo(Chars("TrUE"))
    /\ environ = SetTo(Chars("false"))
    /\ "exec" \in effects[p]

C6_Safe ==
  \A p \in Threads :
    /\ pc[p] = "sh_wait" => elapsed[p] <= ShellTimeout
    /\ pc[p] = "done" => child[p] # "running"
    /\ (pc[p] = "done" /\ handler[p] = "execute_shell" /\ args[p] = <<"sleep", "30">>) =>
         /\ child[p] = "killed"
         /\ ret[p] = Gave([status |-> "success",
                           result |-> "Command '['sleep', '30']' timed out after 10 seconds"])

\* C6: with the gate enabled a shell dispatch always returns; a child that
\* has not finished after 10 seconds is terminated, the result text is the
\* timeout fault's message, and no child is running once the dispatch has
\* returned.
C6_ShellBounded ==
  /\ []C6_Safe
  /\ \A p \in Threads : (pc[p] \in {"sh_run", "sh_wait"}) ~> (pc[p] = "done")

C6_Witness ==
  \E p \in Threads :
    /\ pc[p] = "done" /\ child[p] = "killed" /\ elapsed[p] = ShellTimeout

\* C7: when the evaluated code raises a fault, execute_python returns the
\* fault's message, and only that, and execute gives the success envelope
\* with it.
C7_FaultBecomesText ==
  \A p \in Threads :
    (pc[p] = "done" /\ codeFault[p] # NoFault) =>
      ret[p] = Gave([status |-> "success", result |-> codeFault[p].msg])

\* C8: an envelope returned by execute is either status success with result
\* and no message, or status error with message and no result.
C8_OneVariant ==
  \A p \in Threads : ret[p].kind = "returned" => WellFormed(ret[p].envelope)

C8_Witness ==
  \E p \in Threads :
    /\ pc[p] = "done" /\ tool_name[p] = "search" /\ params[p] = NoneParams
    /\ ret[p].envelope = [status |-> "error",
                          message |-> "'NoneType' object has no attribute 'get'"]

\* C9: when a code evaluation ends, sys.stdout is the stream that was
\* installed when the evaluation replaced it.
C9_StdoutRestored ==
  [][\A p \in Threads :
       (pc[p] = "py_finally" /\ pc'[p] = "done") => sys_stdout' = stdoutBefore[p]]_vars

\* C10: a code evaluation that ended normally and was not in flight together
\* with another one returns exactly the text its own code printed; two
\* evaluations in flight together can capture each other's text or lose
\* their own.
C10_SerializedCapture ==
  \A p \in Threads :
    (pc[p] = "done" /\ "exec" \in effects[p] /\ codeFault[p] = NoFault
       /\ ~overlapped[p]) =>
      ret[p] = Gave([status |-> "success", result |-> written[p]])

C10_Witness ==
  \E p, q \in Threads :
    /\ p # q /\ pc[p] = "done" /\ pc[q] = "done"
    /\ written[p] = "" /\ ret[p] = Gave([status |-> "success", result |-> "a\n"])
    /\ written[q] = "a\n" /\ ret[q] = Gave([status |-> "success", result |-> ""])

====
